---- MODULE Spec2Model ----
(***************************************************************************)
(* Model of src/exp_unc.py: find_min_std_window (the window search) and    *)
(* the interactive session of the __main__ block that calls it.            *)
(*                                                                         *)
(* Numbers.  Times and window lengths are floats in the source.  Here they *)
(* are exact integers counted in ticks of 1/Scale second, so a length of   *)
(* 1.5 s is 150 ticks and the step of np.arange (1 second) is Scale ticks. *)
(* A standard deviation is kept as the exact fraction num/den of its       *)
(* square (the sample variance); comparisons of standard deviations are    *)
(* comparisons of these fractions.  "inf" and "nan" are the float values   *)
(* float('inf') and NaN with their comparison rules.  Rounding of floating *)
(* point arithmetic is not modelled.                                       *)
(*                                                                         *)
(* Indices are the 0-based positions of the source; At(s, i) reads the     *)
(* row at position i.                                                      *)
(***************************************************************************)
EXTENDS Integers, Sequences, FiniteSets, TLC

(* ---------------------------- bounds ----------------------------------- *)

\* longest series (number of rows of the DataFrame)
MaxLen == 4
\* how many times the session re-prompts after a rejected input
MaxRetries == 2

(* ---------------------- numbers of the program ------------------------- *)

\* ticks per second: the step 1 of np.arange(min, max + 1, 1)
Scale == 100
\* the 1% margin "window_size * 0.01", as the divisor 100
TolDen == 100
\* "end_idx - i < 2": at least 2 index steps in a window
MinSpan == 2
\* a missing (NaN) cell of the channel
Missing == -1

\* gaps between consecutive rows of X_Value (ticks); times are sorted
Gaps == {49, 50, 100}
\* window lengths a caller may pass (ticks): 1 s, 1.5 s, 2 s
MinLengths == {100, 150}
MaxLengths == {100, 150, 200}

VARIABLES
    time,              \* df['X_Value'], a sequence of ticks
    col,               \* df[column_name], <<>> when the column is absent
    hasColumn,         \* column_name in df.columns
    min_window_size,
    max_window_size,
    pc,                \* position inside find_min_std_window
    min_std,
    best_start_idx,
    best_end_idx,
    best_window_size,
    k,                 \* position in the array of lengths being scanned
    window_size,
    i,
    outcome,           \* "none", "result" or the error raised
    ret,               \* the returned tuple
    evaluated,         \* number of loop bodies entered so far
    spc,               \* position of the session ("direct": no session)
    reprompts,         \* rejected inputs so far
    presented,         \* what the session printed: "none", "results", "error"
    calls              \* number of invocations of find_min_std_window

args == <<time, col, hasColumn, min_window_size, max_window_size>>
locals == <<min_std, best_start_idx, best_end_idx, best_window_size, k, window_size, i>>
sessv == <<spc, reprompts, presented, calls>>
vars == <<args, locals, pc, outcome, ret, evaluated, sessv>>

(* --------------------------- helpers ----------------------------------- *)

\* s.iloc[p]
At(s, p) == s[p + 1]

Abs(x) == IF x < 0 THEN -x ELSE x

RECURSIVE SeqSum(_)
SeqSum(s) == IF s = <<>> THEN 0 ELSE Head(s) + SeqSum(Tail(s))

RECURSIVE PrefixSums(_, _)
\* times of the rows, given the first time and the gaps that follow
PrefixSums(t0, gaps) ==
    IF gaps = <<>> THEN <<t0>>
    ELSE <<t0>> \o PrefixSums(t0 + Head(gaps), Tail(gaps))

SeqsUpTo(S, n) == UNION {[1..m -> S] : m \in 0..n}

\* the sorted time columns of at most MaxLen rows
TimeColumns == {<<>>} \cup {PrefixSums(0, g) : g \in SeqsUpTo(Gaps, MaxLen - 1)}

\* the cells of a channel: two levels, or missing
Values == {0, 1, Missing}

(* float values of a standard deviation *)
Inf == [kind |-> "inf", num |-> 0, den |-> 1]
NaNStd == [kind |-> "nan", num |-> 0, den |-> 1]
Num(n, d) == [kind |-> "num", num |-> n, den |-> d]

\* a <= b on floats: an equal value would replace the best
LessOrEqual(a, b) ==
    IF a.kind = "nan" \/ b.kind = "nan" THEN FALSE
    ELSE IF b.kind = "inf" THEN TRUE
    ELSE IF a.kind = "inf" THEN FALSE
    ELSE a.num * b.den <= b.num * a.den

\* a < b on floats ("current_std < min_std"): false whenever one side is NaN
Less(a, b) ==
    IF a.kind = "nan" \/ b.kind = "nan" THEN FALSE
    ELSE IF b.kind = "inf" THEN a.kind # "inf"
    ELSE IF a.kind = "inf" THEN FALSE
    ELSE a.num * b.den < b.num * a.den

\* the non-missing cells of a window, in order
DropNa(w) == SelectSeq(w, LAMBDA x : x # Missing)

\* Series.std(): skips missing cells, N-1 denominator, NaN below 2 values.
\* Two passes as pandas does: deviations from the mean, then their squares;
\* with mean = S/n the sum of squares is sum((n*x - S)^2) / n^2.
Std(w) ==
    LET v == DropNa(w)
        n == Len(v)
        S == SeqSum(v)
    IN  IF n < 2 THEN NaNStd
        ELSE Num(SeqSum([p \in 1..n |-> (n * v[p] - S) * (n * v[p] - S)]), n * n * (n - 1))

\* df[column_name].iloc[a:b], the end left out
WindowShort(c, a, b) == SubSeq(c, a + 1, b)

\* df[column_name].iloc[a:b+1]
Window(c, a, b) == SubSeq(c, a + 1, b + 1)

\* df[df['X_Value'] <= end_time].index[-1]: the last row at or before end_time
EndIdx(t, end_time) ==
    LET S == {j \in 0..(Len(t) - 1) : At(t, j) <= end_time}
    IN  CHOOSE j \in S : \A j2 \in S : j2 <= j

RECURSIVE Arange(_, _, _)
\* np.arange(start, stop, step): start, start+step, ... below stop
Arange(start, stop, step) ==
    IF start >= stop THEN <<>>
    ELSE <<start>> \o Arange(start + step, stop, step)

\* the lengths with the inclusive end added twice
LengthsWide(lo, hi) == Arange(lo, hi + 2 * Scale, Scale)

\* the lengths the scan goes through, in order
Lengths(lo, hi) ==
    IF lo = hi THEN <<lo>>
    ELSE Arange(lo, hi + Scale, Scale)

\* the margin without abs(): a window that falls short is never discarded
OutOfToleranceOneSided(actual, L) == (actual - L) * TolDen > L

\* end_idx - i < 1: two rows would do
TooFewLoose(e, p) == e - p < MinSpan - 1

\* end_idx - i < 2
TooFew(e, p) == e - p < MinSpan

\* the checks with the range looked at first
ValidateRangeFirst(has, lo, hi) ==
    IF lo > hi THEN "InvalidRange"
    ELSE IF ~has THEN "UnknownChannel"
    ELSE "ok"

\* the checks without the one on the range
ValidateChannelOnly(has, lo, hi) ==
    IF ~has THEN "UnknownChannel" ELSE "ok"

\* lines 29-33: the channel, then the range
Validate(has, lo, hi) ==
    IF ~has THEN "UnknownChannel"
    ELSE IF lo > hi THEN "InvalidRange"
    ELSE "ok"

\* abs(actual_window_size - window_size) > window_size * 0.01
OutOfTolerance(actual, L) == Abs(actual - L) * TolDen > L

NoRet == [start_index |-> 0, end_index |-> 0, std_dev |-> Inf, window_size |-> 0]

(* ------------------- find_min_std_window ------------------------------- *)

\* the state of a call that has not started its scan
Fresh ==
    /\ min_std = Inf
    /\ best_start_idx = 0
    /\ best_end_idx = 0
    /\ best_window_size = 0
    /\ k = 0
    /\ window_size = 0
    /\ i = 0
    /\ outcome = "none"
    /\ ret = NoRet
    /\ evaluated = 0

\* a direct call with any arguments
Init ==
    /\ time \in TimeColumns
    /\ hasColumn \in BOOLEAN
    /\ col \in IF hasColumn THEN [1..Len(time) -> Values] ELSE {<<>>}
    /\ min_window_size \in MinLengths
    /\ max_window_size \in MaxLengths
    /\ pc = "entry"
    /\ Fresh
    /\ spc = "direct"
    /\ reprompts = 0
    /\ presented = "none"
    /\ calls = 1

\* line 29-30
RaiseUnknownChannel ==
    /\ pc = "entry"
    /\ Validate(hasColumn, min_window_size, max_window_size) = "UnknownChannel"
    /\ outcome' = "UnknownChannel"
    /\ pc' = "done"
    /\ UNCHANGED <<args, locals, ret, evaluated, sessv>>

\* line 32-33
RaiseInvalidRange ==
    /\ pc = "entry"
    /\ Validate(hasColumn, min_window_size, max_window_size) = "InvalidRange"
    /\ outcome' = "InvalidRange"
    /\ pc' = "done"
    /\ UNCHANGED <<args, locals, ret, evaluated, sessv>>

\* lines 35-44 / 72-74: the locals are set and the loops are entered
StartScan ==
    /\ pc = "entry"
    /\ Validate(hasColumn, min_window_size, max_window_size) = "ok"
    /\ min_std' = Inf
    /\ best_start_idx' = 0
    /\ best_end_idx' = 0
    /\ best_window_size' = 0
    /\ i' = 0
    /\ IF Len(time) = 0
       THEN /\ pc' = "final"
            /\ UNCHANGED <<k, window_size>>
       ELSE /\ pc' = "scan"
            /\ k' = 1
            /\ window_size' = Lengths(min_window_size, max_window_size)[1]
    /\ UNCHANGED <<args, outcome, ret, evaluated, sessv>>

\* the loop control after the body at (k, i): next row, next length, or out
Advance ==
    LET lens == Lengths(min_window_size, max_window_size)
    IN  IF i + 1 < Len(time)
        THEN /\ i' = i + 1
             /\ UNCHANGED <<k, window_size>>
             /\ pc' = "scan"
        ELSE IF k < Len(lens)
        THEN /\ i' = 0
             /\ k' = k + 1
             /\ window_size' = lens[k + 1]
             /\ pc' = "scan"
        ELSE /\ UNCHANGED <<i, k, window_size>>
             /\ pc' = "final"

start_time == At(time, i)
end_time == start_time + window_size
end_idx == EndIdx(time, end_time)
current_std == Std(Window(col, i, end_idx))
actual_window_size == At(time, end_idx) - start_time

\* lines 53-54 / 83-84
SkipTooFew ==
    /\ pc = "scan"
    /\ TooFew(end_idx, i)
    /\ evaluated' = evaluated + 1
    /\ Advance
    /\ UNCHANGED <<args, min_std, best_start_idx, best_end_idx, best_window_size,
                   outcome, ret, sessv>>

\* lines 62-63 / 92-93
SkipOutOfTolerance ==
    /\ pc = "scan"
    /\ ~TooFew(end_idx, i)
    /\ OutOfTolerance(actual_window_size, window_size)
    /\ evaluated' = evaluated + 1
    /\ Advance
    /\ UNCHANGED <<args, min_std, best_start_idx, best_end_idx, best_window_size,
                   outcome, ret, sessv>>

\* lines 65 / 95, the comparison false
KeepBest ==
    /\ pc = "scan"
    /\ ~TooFew(end_idx, i)
    /\ ~OutOfTolerance(actual_window_size, window_size)
    /\ ~Less(current_std, min_std)
    /\ evaluated' = evaluated + 1
    /\ Advance
    /\ UNCHANGED <<args, min_std, best_start_idx, best_end_idx, best_window_size,
                   outcome, ret, sessv>>

\* lines 65-69 / 95-99
RecordBest ==
    /\ pc = "scan"
    /\ ~TooFew(end_idx, i)
    /\ ~OutOfTolerance(actual_window_size, window_size)
    /\ Less(current_std, min_std)
    /\ min_std' = current_std
    /\ best_start_idx' = i
    /\ best_end_idx' = end_idx
    /\ best_window_size' = window_size
    /\ evaluated' = evaluated + 1
    /\ Advance
    /\ UNCHANGED <<args, outcome, ret, sessv>>

\* the check of lines 101-102 left out: the initial best is returned
ReturnInitialBest ==
    /\ pc = "final"
    /\ min_std = Inf
    /\ outcome' = "result"
    /\ ret' = [start_index |-> best_start_idx, end_index |-> best_end_idx + 1,
               std_dev |-> min_std, window_size |-> best_window_size]
    /\ pc' = "done"
    /\ UNCHANGED <<args, locals, evaluated, sessv>>

\* lines 101-102
RaiseNoValidWindow ==
    /\ pc = "final"
    /\ min_std = Inf
    /\ outcome' = "NoValidWindow"
    /\ pc' = "done"
    /\ UNCHANGED <<args, locals, ret, evaluated, sessv>>

\* line 104
Return ==
    /\ pc = "final"
    /\ min_std # Inf
    /\ outcome' = "result"
    /\ ret' = [start_index |-> best_start_idx, end_index |-> best_end_idx + 1,
               std_dev |-> min_std, window_size |-> best_window_size]
    /\ pc' = "done"
    /\ UNCHANGED <<args, locals, evaluated, sessv>>

Search ==
    \/ RaiseUnknownChannel
    \/ RaiseInvalidRange
    \/ StartScan
    \/ SkipTooFew
    \/ SkipOutOfTolerance
    \/ KeepBest
    \/ RecordBest
    \/ RaiseNoValidWindow
    \/ Return

Next == Search

Spec == Init /\ [][Next]_vars

(* ------------------- the session (__main__) ---------------------------- *)

Errors == {"UnknownChannel", "InvalidRange", "NoValidWindow"}

\* the files the session reads: short series are enough for both outcomes
SessionTimeColumns == {t \in TimeColumns : Len(t) <= MinSpan + 1}
\* what the user may type for the minimum: 0 is rejected
MinInputs == {0} \cup MinLengths
MaxInputs == MaxLengths

\* lines 333-358: the file is read, the prompts start
SessionInit ==
    /\ time \in SessionTimeColumns
    /\ hasColumn = FALSE
    /\ col = <<>>
    /\ min_window_size = 0
    /\ max_window_size = 0
    /\ pc = "idle"
    /\ Fresh
    /\ spc = "ask_col"
    /\ reprompts = 0
    /\ presented = "none"
    /\ calls = 0

\* lines 366-367: a name that is not in colunas_analise
RejectColumn ==
    /\ spc = "ask_col"
    /\ reprompts < MaxRetries
    /\ reprompts' = reprompts + 1
    /\ UNCHANGED <<args, locals, pc, outcome, ret, evaluated, spc, presented, calls>>

\* lines 364-365: a listed name; the file may or may not hold that column
AcceptColumn ==
    /\ spc = "ask_col"
    /\ \E has \in BOOLEAN :
         /\ hasColumn' = has
         /\ col' \in IF has THEN [1..Len(time) -> Values] ELSE {<<>>}
    /\ spc' = "ask_min"
    /\ UNCHANGED <<time, min_window_size, max_window_size, locals, pc, outcome, ret,
                   evaluated, reprompts, presented, calls>>

\* lines 377-380: not above zero (or not a number)
RejectMin ==
    /\ spc = "ask_min"
    /\ reprompts < MaxRetries
    /\ \E x \in MinInputs : ~(x > 0)
    /\ reprompts' = reprompts + 1
    /\ UNCHANGED <<args, locals, pc, outcome, ret, evaluated, spc, presented, calls>>

\* lines 374-376
AcceptMin ==
    /\ spc = "ask_min"
    /\ \E x \in MinInputs :
         /\ x > 0
         /\ min_window_size' = x
    /\ spc' = "ask_max"
    /\ UNCHANGED <<time, col, hasColumn, max_window_size, locals, pc, outcome, ret,
                   evaluated, reprompts, presented, calls>>

\* lines 388-391: below the minimum (or not a number)
RejectMax ==
    /\ spc = "ask_max"
    /\ reprompts < MaxRetries
    /\ \E x \in MaxInputs : ~(x >= min_window_size)
    /\ reprompts' = reprompts + 1
    /\ UNCHANGED <<args, locals, pc, outcome, ret, evaluated, spc, presented, calls>>

\* lines 385-387
AcceptMax ==
    /\ spc = "ask_max"
    /\ \E x \in MaxInputs :
         /\ x >= min_window_size
         /\ max_window_size' = x
    /\ spc' = "call"
    /\ UNCHANGED <<time, col, hasColumn, min_window_size, locals, pc, outcome, ret,
                   evaluated, reprompts, presented, calls>>

\* lines 394-396: the search is invoked, with a new frame of locals
CallSearch ==
    /\ spc = "call"
    /\ pc' = "entry"
    /\ min_std' = Inf
    /\ best_start_idx' = 0
    /\ best_end_idx' = 0
    /\ best_window_size' = 0
    /\ k' = 0
    /\ window_size' = 0
    /\ i' = 0
    /\ outcome' = "none"
    /\ ret' = NoRet
    /\ evaluated' = 0
    /\ calls' = calls + 1
    /\ spc' = "in_search"
    /\ UNCHANGED <<args, reprompts, presented>>

\* lines 398-460: the results are printed, saved and plotted; the program ends
ShowResults ==
    /\ spc = "in_search"
    /\ pc = "done"
    /\ outcome = "result"
    /\ presented' = "results"
    /\ spc' = "exit"
    /\ UNCHANGED <<args, locals, pc, outcome, ret, evaluated, reprompts, calls>>

\* the failure is printed and the prompts start again
ShowErrorAndAskAgain ==
    /\ spc = "in_search"
    /\ pc = "done"
    /\ outcome \in Errors
    /\ presented' = "error"
    /\ spc' = "ask_col"
    /\ pc' = "idle"
    /\ UNCHANGED <<args, locals, outcome, ret, evaluated, reprompts, calls>>

\* lines 462-463: the failure is printed; nothing follows the handler
ShowError ==
    /\ spc = "in_search"
    /\ pc = "done"
    /\ outcome \in Errors
    /\ presented' = "error"
    /\ spc' = "exit"
    /\ UNCHANGED <<args, locals, pc, outcome, ret, evaluated, reprompts, calls>>

\* The search as the session can drive it: max >= min is settled at the
\* prompt (line 386), so the raise of line 33 is out of its reach.
SessionNext ==
    \/ RejectColumn
    \/ AcceptColumn
    \/ RejectMin
    \/ AcceptMin
    \/ RejectMax
    \/ AcceptMax
    \/ CallSearch
    \/ RaiseUnknownChannel
    \/ StartScan
    \/ SkipTooFew
    \/ SkipOutOfTolerance
    \/ KeepBest
    \/ RecordBest
    \/ RaiseNoValidWindow
    \/ Return
    \/ ShowResults
    \/ ShowError

SessionSpec == SessionInit /\ [][SessionNext]_vars

(* ----------------------- reference definitions -------------------------- *)

Returned == pc = "done" /\ outcome = "result"
Rows == 0..(Len(time) - 1)
\* the lengths the scan of this call goes through
Scanned == {Lengths(min_window_size, max_window_size)[n] :
              n \in 1..Len(Lengths(min_window_size, max_window_size))}

\* the last row at or before At(time, p) + L
LastRow(L, p) == CHOOSE j \in Rows :
                    /\ At(time, j) <= At(time, p) + L
                    /\ \A j2 \in Rows : At(time, j2) <= At(time, p) + L => j2 <= j

\* candidate (L, p) passes the minimum-size check and the 1% duration check
Passes(L, p) ==
    /\ LastRow(L, p) - p >= 2
    /\ 100 * Abs((At(time, LastRow(L, p)) - At(time, p)) - L) <= L

\* the present cells of rows a..b of the channel
Present(a, b) == {p \in a..b : At(col, p) # Missing}

RECURSIVE SumOver(_, _)
SumOver(S, f) ==
    IF S = {} THEN 0
    ELSE LET x == CHOOSE y \in S : TRUE IN f[x] + SumOver(S \ {x}, f)

\* textbook sample variance of rows a..b (both included), missing cells left
\* out: (n*sum(x^2) - sum(x)^2) / (n*(n-1)), undefined below two values
SampleVar(a, b) ==
    LET P == Present(a, b)
        n == Cardinality(P)
        s1 == SumOver(P, [p \in P |-> At(col, p)])
        s2 == SumOver(P, [p \in P |-> At(col, p) * At(col, p)])
    IN  IF n < 2 THEN NaNStd ELSE Num(n * s2 - s1 * s1, n * (n - 1))

Defined(x) == x.kind = "num"
SameValue(x, y) == Defined(x) /\ Defined(y) /\ x.num * y.den = y.num * x.den
AtMost(x, y) == Defined(x) /\ Defined(y) /\ x.num * y.den <= y.num * x.den

\* the standard deviation of candidate (L, p)
CandStd(L, p) == SampleVar(p, LastRow(L, p))

\* (L1, p1) comes no later than (L2, p2) in the scan
ScanOrderLeq(L1, p1, L2, p2) == L1 < L2 \/ (L1 = L2 /\ p1 <= p2)

(* ------------------------------ claims --------------------------------- *)

\* C1: a returned std_dev is the sample standard deviation of the channel
\* over the returned window [start_index, end_index-1], and no candidate
\* (L, i) that passes the minimum-size and the 1% duration checks, and has a
\* defined standard deviation, has a smaller one.
C1_ReturnsMinimalStd ==
    Returned =>
        /\ SameValue(ret.std_dev, SampleVar(ret.start_index, ret.end_index - 1))
        /\ \A L \in Scanned : \A p \in Rows :
              (Passes(L, p) /\ Defined(CandStd(L, p))) => AtMost(ret.std_dev, CandStd(L, p))

\* a result that replaced an earlier, worse candidate
C1_Witness ==
    /\ Returned
    /\ \E L \in Scanned : \E p \in Rows :
          /\ Passes(L, p)
          /\ Defined(CandStd(L, p))
          /\ ~AtMost(CandStd(L, p), ret.std_dev)
          /\ ScanOrderLeq(L, p, ret.window_size, ret.start_index)

\* C2: a returned window has start_index < end_index and spans at least
\* three rows (end_index exclusive).
C2_AtLeastThreeRows ==
    Returned =>
        /\ ret.start_index < ret.end_index
        /\ ret.end_index - ret.start_index >= 3

\* a result of exactly three rows
C2_Witness == Returned /\ ret.end_index - ret.start_index = 3

\* C3: the realized duration time[end_index-1] - time[start_index] of a
\* returned window is within 1% of the reported window length.
C3_DurationWithinTolerance ==
    Returned =>
        100 * Abs((At(time, ret.end_index - 1) - At(time, ret.start_index)) - ret.window_size)
            <= ret.window_size

\* a result whose duration differs from the reported length, within the margin
C3_Witness ==
    /\ Returned
    /\ At(time, ret.end_index - 1) - At(time, ret.start_index) # ret.window_size

\* C4: the reported window length of a returned result lies in
\* [min_length, max_length].
C4_LengthWithinRange ==
    Returned =>
        /\ min_window_size <= ret.window_size
        /\ ret.window_size <= max_window_size

\* C5: among the passing candidates that share the minimal standard
\* deviation the first in scan order is returned: lowest L, then lowest i.
C5_FirstOfTiesWins ==
    Returned =>
        \A L \in Scanned : \A p \in Rows :
            (Passes(L, p) /\ SameValue(CandStd(L, p), ret.std_dev))
                => ScanOrderLeq(ret.window_size, ret.start_index, L, p)

\* a result that has an equal candidate later in the scan
C5_Witness ==
    /\ Returned
    /\ \E L \in Scanned : \E p \in Rows :
          /\ Passes(L, p)
          /\ SameValue(CandStd(L, p), ret.std_dev)
          /\ <<L, p>> # <<ret.window_size, ret.start_index>>

\* C6: with the channel present and min <= max, when no candidate (L, i) passes
\* both checks (an empty or too short series included) the call ends with
\* NoValidWindow and returns nothing.
C6_NoCandidateNoWindow ==
    (/\ pc = "done"
     /\ hasColumn
     /\ min_window_size <= max_window_size
     /\ \A L \in Scanned : \A p \in Rows : ~Passes(L, p))
        => (outcome = "NoValidWindow" /\ ret = NoRet)

\* a scan of at least three rows, every candidate discarded
C6_Witness ==
    /\ pc = "done"
    /\ outcome = "NoValidWindow"
    /\ Len(time) >= 3
    /\ evaluated >= 3
    /\ \A L \in Scanned : \A p \in Rows : ~Passes(L, p)

\* C7: with the channel present and min > max the call ends with InvalidRange,
\* no candidate evaluated, nothing returned.
C7_InvalidRangeFirst ==
    /\ (hasColumn /\ min_window_size > max_window_size) =>
          /\ pc \in {"entry", "done"}
          /\ evaluated = 0
          /\ pc = "done" => (outcome = "InvalidRange" /\ ret = NoRet)
    /\ outcome = "InvalidRange" => (min_window_size > max_window_size /\ evaluated = 0)

\* InvalidRange raised on a series that has windows to offer
C7_Witness ==
    /\ pc = "done"
    /\ outcome = "InvalidRange"
    /\ hasColumn
    /\ Len(time) >= 3

\* C8: with the channel absent the call ends with UnknownChannel, whatever
\* the range (min > max included), no candidate evaluated.
C8_UnknownChannelFirst ==
    /\ ~hasColumn =>
          /\ pc \in {"entry", "done"}
          /\ evaluated = 0
          /\ pc = "done" => (outcome = "UnknownChannel" /\ ret = NoRet)
    /\ outcome = "UnknownChannel" => (~hasColumn /\ evaluated = 0)

\* UnknownChannel raised although the range is invalid too
C8_Witness ==
    /\ pc = "done"
    /\ outcome = "UnknownChannel"
    /\ min_window_size > max_window_size

\* C9: in fixed-window mode (min = max) every step of the scan has the target
\* length min_length, and a result reports that length.
C9_FixedModeSingleLength ==
    (hasColumn /\ min_window_size = max_window_size) =>
        /\ pc = "scan" => (window_size = min_window_size /\ k = 1)
        /\ Returned => (ret.window_size = min_window_size)
        /\ pc = "done" => evaluated <= Len(time)

\* a fixed-mode result
C9_Witness ==
    /\ Returned
    /\ min_window_size = max_window_size
    /\ evaluated = Len(time)

\* C10 as claimed: after a failure is presented the session does not end
C10_NoExitAfterFailure == ~(presented = "error" /\ spc = "exit")

\* C10 as amended: a failed search is printed and the session then ends, the
\* search invoked once; re-entry is offered at the prompts only.
C10_FailureEndsSession ==
    /\ calls <= 1
    /\ presented = "error" => (spc = "exit" /\ outcome \in Errors /\ calls = 1)
    /\ (spc = "exit" /\ outcome \in Errors) => presented = "error"
    /\ reprompts > 0 => (spc # "direct" /\ (calls = 0 \/ spc \in {"in_search", "exit"}))

\* a session that re-prompted, searched, failed and ended
C10_Witness ==
    /\ spc = "exit"
    /\ presented = "error"
    /\ outcome = "NoValidWindow"
    /\ reprompts > 0

\* C11: whenever some candidate (L, i) passes the minimum-size and the 1%
\* duration checks, missing cells or not, the call returns a result and
\* does not end with NoValidWindow.
C11_CandidateImpliesResult ==
    (/\ pc = "done"
     /\ hasColumn
     /\ min_window_size <= max_window_size
     /\ \E L \in Scanned : \E p \in Rows : Passes(L, p))
        => outcome = "result"

====
